---- MODULE Spec2Model ----
(***************************************************************************)
(* GNSS HAL conformance tests (gnss/aidl/vts/gnss_hal_test_cases.cpp):     *)
(* the candidate selection FindStrongFrequentNonGpsSource and the three    *)
(* blocklist tests that drive a location session, the satellite-status     *)
(* callback queue and IGnssConfiguration::setBlocklist.                    *)
(*                                                                         *)
(* Signal strengths (float cN0Dbhz) are modelled by integers: the code     *)
(* only compares them and copies them.                                     *)
(***************************************************************************)
EXTENDS Integers, Sequences, FiniteSets, TLC

(* GnssConstellationType values (the HIDL 2.0 and the AIDL enum agree on   *)
(* them, so the static_cast between the two keeps the value).              *)
UNKNOWN == 0
GPS == 1
GLONASS == 3
GALILEO == 6
IRNSS == 7

(* ---------------------------------------------------------------------- *)
(* Inputs                                                                  *)
(* ---------------------------------------------------------------------- *)

(* Longest snapshot list handed to FindStrongFrequentNonGpsSource.         *)
MaxSnaps == 2

(* One GnssSvInfo record: constellation, svid, cN0Dbhz and the             *)
(* USED_IN_FIX bit of svFlag.                                              *)
SvInfo(c, s, n, u) == [constellation |-> c, svid |-> s, cN0Dbhz |-> n, used |-> u]

(* The records the inputs are built from: a GPS satellite stronger than    *)
(* all others, a strong record that is not used in fix, a used record of   *)
(* strength 0, and used records of three non-GPS satellites that tie at    *)
(* 30 (two of them sharing the svid), one of which also occurs at 35.      *)
SvInfos ==
    { SvInfo(GPS, 3, 35, TRUE),
      SvInfo(GLONASS, 7, 35, FALSE),
      SvInfo(GALILEO, 7, 0, TRUE),
      SvInfo(GLONASS, 7, 30, TRUE),
      SvInfo(GLONASS, 7, 35, TRUE),
      SvInfo(GALILEO, 3, 30, TRUE),
      SvInfo(GLONASS, 3, 30, TRUE) }

(* Snapshots (one hidl_vec<GnssSvInfo> per satellite-status callback) of   *)
(* at most two records.                                                    *)
SvInfoVecs ==
    {<<>>} \cup {<<r>> : r \in SvInfos} \cup {<<r, s>> : r \in SvInfos, s \in SvInfos}

SvInfoLists == UNION {[1..n -> SvInfoVecs] : n \in 0..MaxSnaps}

(* Three snapshots that show one satellite at the strengths 30, 35, 28.    *)
ExampleList ==
    << <<SvInfo(GLONASS, 7, 30, TRUE)>>,
       <<SvInfo(GLONASS, 7, 35, TRUE)>>,
       <<SvInfo(GLONASS, 7, 28, TRUE)>> >>

(* The records of the inputs that are reordered: used records of three     *)
(* non-GPS satellites that tie at 30, one of which also occurs at 35, and  *)
(* a used record of strength 0.                                            *)
TiedSvInfos ==
    { SvInfo(GLONASS, 7, 30, TRUE),
      SvInfo(GLONASS, 7, 35, TRUE),
      SvInfo(GALILEO, 3, 30, TRUE),
      SvInfo(GLONASS, 3, 30, TRUE),
      SvInfo(GALILEO, 7, 0, TRUE) }

TiedSvInfoVecs ==
    {<<>>} \cup {<<r>> : r \in TiedSvInfos}
           \cup {<<r, s>> : r \in TiedSvInfos, s \in TiedSvInfos}

TiedSvInfoLists == UNION {[1..n -> TiedSvInfoVecs] : n \in 0..MaxSnaps}

(* min_observations: a value <= 0 and the value the test passes.           *)
MinObservations == {0, 2}

(* ---------------------------------------------------------------------- *)
(* FindStrongFrequentNonGpsSource                                          *)
(* ---------------------------------------------------------------------- *)

(* BlocklistedSource                                                       *)
Source(c, s) == [constellation |-> c, svid |-> s]

(* ComparableBlocklistedSource(): the default-constructed key.             *)
DefaultSource == Source(UNKNOWN, 0)

(* operator< with the two fields compared in the other order.             *)
SourceLess_ConstellationFirst(a, b) ==
    \/ a.constellation < b.constellation
    \/ (a.constellation = b.constellation /\ a.svid < b.svid)

(* ComparableBlocklistedSource::operator<                                  *)
SourceLess(a, b) ==
    \/ a.svid < b.svid
    \/ (a.svid = b.svid /\ a.constellation < b.constellation)

(* std::map<ComparableBlocklistedSource, SignalCounts>: a sequence of      *)
(* entries kept in ascending key order.  find: the index of the entry      *)
(* equivalent to the key under operator<, 0 for end().                     *)
MapFind(m, k) ==
    LET hits == {i \in 1..Len(m) : ~SourceLess(m[i].id, k) /\ ~SourceLess(k, m[i].id)}
    IN  IF hits = {} THEN 0 ELSE CHOOSE i \in hits : TRUE

(* A container that keeps its entries in the order of insertion.           *)
MapInsert_Append(m, e) == Append(m, e)

(* insert: the entry goes after every entry whose key is smaller.          *)
MapInsert(m, e) ==
    LET before == {i \in 1..Len(m) : SourceLess(m[i].id, e.id)}
        n == Cardinality(before)
    IN  SubSeq(m, 1, n) \o <<e>> \o SubSeq(m, n + 1, Len(m))

(* The filter without the test for GPS.                                    *)
ScanAccepts_NoGpsTest(gnss_sv) == gnss_sv.used

(* The filter of the scan: used in fix and not GPS.                        *)
ScanAccepts(gnss_sv) == gnss_sv.used /\ gnss_sv.constellation # GPS

(* The body with the latest strength stored instead of the largest.        *)
ScanSv_LatestStrength(m, gnss_sv) ==
    IF ScanAccepts(gnss_sv)
    THEN LET source == Source(gnss_sv.constellation, gnss_sv.svid)
             itSignal == MapFind(m, source)
         IN  IF itSignal = 0
             THEN MapInsert(m, [id |-> source, observations |-> 1,
                                max_cn0_dbhz |-> gnss_sv.cN0Dbhz])
             ELSE [m EXCEPT
                     ![itSignal].observations = @ + 1,
                     ![itSignal].max_cn0_dbhz = gnss_sv.cN0Dbhz]
    ELSE m

(* The body of the inner loop for one record.                              *)
ScanSv(m, gnss_sv) ==
    IF ScanAccepts(gnss_sv)
    THEN LET source == Source(gnss_sv.constellation, gnss_sv.svid)
             itSignal == MapFind(m, source)
         IN  IF itSignal = 0
             THEN MapInsert(m, [id |-> source, observations |-> 1,
                                max_cn0_dbhz |-> gnss_sv.cN0Dbhz])
             ELSE [m EXCEPT
                     ![itSignal].observations = @ + 1,
                     ![itSignal].max_cn0_dbhz =
                         IF @ < gnss_sv.cN0Dbhz THEN gnss_sv.cN0Dbhz ELSE @]
    ELSE m

(* The inner loop over one snapshot, from record iSv on.                   *)
RECURSIVE ScanVec(_, _, _)
ScanVec(m, sv_info_vec, iSv) ==
    IF iSv > Len(sv_info_vec) THEN m
    ELSE ScanVec(ScanSv(m, sv_info_vec[iSv]), sv_info_vec, iSv + 1)

(* The outer loop over the snapshot list, from snapshot k on.              *)
RECURSIVE ScanList(_, _, _)
ScanList(m, list, k) ==
    IF k > Len(list) THEN m
    ELSE ScanList(ScanVec(m, list[k], 1), list, k + 1)

(* The start value of max_cn0_dbhz_with_sufficient_count.                  *)
InitialMaxCn0 == 0

(* The condition without the test of the observation count.                *)
SelectTakes_NoCountTest(pairSignal, best, min_observations) ==
    pairSignal.max_cn0_dbhz > best.max_cn0_dbhz

(* The condition under which an entry replaces the current choice.         *)
SelectTakes(pairSignal, best, min_observations) ==
    /\ pairSignal.observations >= min_observations
    /\ pairSignal.max_cn0_dbhz > best.max_cn0_dbhz

(* The selection loop over the map in key order, from entry k on; best     *)
(* holds source_to_blocklist and max_cn0_dbhz_with_sufficient_count.       *)
RECURSIVE SelectFrom(_, _, _, _)
SelectFrom(m, k, best, min_observations) ==
    IF k > Len(m) THEN best
    ELSE SelectFrom(m, k + 1,
                    IF SelectTakes(m[k], best, min_observations)
                    THEN [id |-> m[k].id, max_cn0_dbhz |-> m[k].max_cn0_dbhz]
                    ELSE best,
                    min_observations)

SelectSource(m, min_observations) ==
    SelectFrom(m, 1, [id |-> DefaultSource, max_cn0_dbhz |-> InitialMaxCn0],
               min_observations).id

FindStrongFrequentNonGpsSource(sv_info_list, min_observations) ==
    SelectSource(ScanList(<<>>, sv_info_list, 1), min_observations)


(* ---------------------------------------------------------------------- *)
(* State                                                                   *)
(* ---------------------------------------------------------------------- *)

VARIABLES
    fpc,                  \* position inside FindStrongFrequentNonGpsSource
    sv_info_list,         \* its argument sv_info_list
    min_observations,     \* its argument min_observations
    mapSignals,           \* its local mapSignals
    found,                \* the source it returns
    test,                 \* the test body that runs
    caps,                 \* aidl_gnss_cb_->last_capabilities_
    pc,                   \* position of the test thread in the test body
    running,              \* a location session is on
    sv_q,                 \* gnss_cb_->sv_info_list_cbq_
    delivered,            \* snapshots delivered since the session started
    sv_size,              \* sv_info_list_cbq_size
    i,                    \* the loop index i of the examining loops
    source_to_blocklist,  \* source_to_blocklist / source_to_blocklist_1
    sources,              \* the vector handed to setBlocklist
    hal_blocklist,        \* the blocklist the HAL last accepted
    reobserved,           \* strongest_sv_is_reobserved
    remaining,            \* unblocklist_loops_remaining
    log,                  \* the operations the test body has performed
    countFail,            \* an EXPECT_GE on the snapshot count has failed
    failedRecs,           \* EXPECT_FALSE failures of the current check
    usedFail,             \* an EXPECT_FALSE of a used-in-fix check has failed
    reobsFails,           \* failures of EXPECT_TRUE(strongest_sv_is_reobserved)
    atSize,               \* the queue content when the check read size()
    matched,              \* an examined snapshot of a round held the source
    drained,              \* retrieve has been called on the snapshot queue
    sv_tag                \* for each queued snapshot, Len(log) when it was stored

findVars == <<fpc, sv_info_list, min_observations, mapSignals, found>>

testVars == <<test, caps, pc, running, sv_q, delivered, sv_size, i,
              source_to_blocklist, sources, hal_blocklist, reobserved,
              remaining, log, countFail, failedRecs, usedFail, reobsFails,
              atSize, matched, drained, sv_tag>>

vars == <<fpc, sv_info_list, min_observations, mapSignals, found,
          test, caps, pc, running, sv_q, delivered, sv_size, i,
          source_to_blocklist, sources, hal_blocklist, reobserved,
          remaining, log, countFail, failedRecs, usedFail, reobsFails,
          atSize, matched, drained, sv_tag>>

(* ---------------------------------------------------------------------- *)
(* FindStrongFrequentNonGpsSource, step by step                            *)
(* ---------------------------------------------------------------------- *)

FindIdle ==
    /\ fpc = "idle"
    /\ sv_info_list = <<>>
    /\ min_observations = 0
    /\ mapSignals = <<>>
    /\ found = DefaultSource

(* The call: the arguments are bound, mapSignals is empty.                 *)
FindCalled ==
    /\ fpc = "scan"
    /\ sv_info_list \in SvInfoLists \cup {ExampleList}
    /\ min_observations \in MinObservations
    /\ mapSignals = <<>>
    /\ found = DefaultSource

(* The call on an input built from the tied records.                       *)
FindCalledOnTied ==
    /\ fpc = "scan"
    /\ sv_info_list \in TiedSvInfoLists
    /\ min_observations \in MinObservations
    /\ mapSignals = <<>>
    /\ found = DefaultSource

(* The scan over all snapshots.                                            *)
FindScan ==
    /\ fpc = "scan"
    /\ mapSignals' = ScanList(<<>>, sv_info_list, 1)
    /\ fpc' = "select"
    /\ UNCHANGED <<sv_info_list, min_observations, found>>
    /\ UNCHANGED testVars

(* The selection loop and the return.                                      *)
FindSelect ==
    /\ fpc = "select"
    /\ found' = SelectSource(mapSignals, min_observations)
    /\ fpc' = "done"
    /\ UNCHANGED <<sv_info_list, min_observations, mapSignals>>
    /\ UNCHANGED testVars


(* ---------------------------------------------------------------------- *)
(* The blocklist tests: constants, helpers of the fixture, predicates      *)
(* ---------------------------------------------------------------------- *)

kLocationsToAwait == 3
kRetriesToUnBlocklist == 10

(* Most snapshots the HAL delivers during one session.                     *)
MaxSvQueue == 3

Tests == {"BlocklistIndividualSatellites",
          "BlocklistConstellationLocationOff",
          "BlocklistConstellationLocationOn"}

PsdsTest == "TestPsdsExtension"

(* The snapshots a HAL reports in a session.  The HAL is free to honour    *)
(* the blocklist or not.                                                   *)
HalSvInfoVecs ==
    { << SvInfo(GLONASS, 7, 30, TRUE), SvInfo(GPS, 3, 35, TRUE),
         SvInfo(GALILEO, 7, 0, TRUE) >>,
      << SvInfo(GLONASS, 7, 35, FALSE), SvInfo(IRNSS, 2, 30, TRUE) >>,
      << SvInfo(GALILEO, 3, 30, TRUE), SvInfo(GALILEO, 7, 0, TRUE) >> }

(* What startLocationAndGetNonGpsConstellation may return when the         *)
(* session showed no non-GPS satellite used in fix.                        *)
FallbackConstellations == {UNKNOWN, GLONASS, GALILEO, IRNSS}

(* Capability bits of IGnssCallback.                                       *)
CAPABILITY_SCHEDULING == 1
CAPABILITY_SATELLITE_BLOCKLIST == 512

(* The capability masks a HAL may have reported last.                      *)
Capabilities ==
    {0, CAPABILITY_SCHEDULING,
     CAPABILITY_SCHEDULING + CAPABILITY_SATELLITE_BLOCKLIST}

(* A test that takes any capability for the wanted one.                    *)
HasCapability_AnyBit(mask, bit) == mask # 0

(* last_capabilities_ & (int)CAPABILITY_...: the bit is set in the mask.   *)
HasCapability(mask, bit) == (mask \div bit) % 2 = 1

Op(o, n, ok) == [op |-> o, n |-> n, ok |-> ok]

(* GnssHalTest::StartAndCheckLocations: the session is on when it returns. *)
StartAndCheckLocations(l) == l \o <<Op("start", 0, TRUE)>>

(* GnssHalTest::StopAndClearLocations: the session is off when it returns. *)
StopAndClearLocations(l) == l \o <<Op("stop", 0, TRUE)>>

(* GnssCallbackEventQueue: store appends, retrieve takes from the front,   *)
(* reset empties the queue.                                                *)
QueueStore(q, e) == Append(q, e)
QueueFront(q, n) == SubSeq(q, 1, IF n < Len(q) THEN n ELSE Len(q))
QueueDrop(q, n) == SubSeq(q, (IF n < Len(q) THEN n ELSE Len(q)) + 1, Len(q))

(* The expectation without the allowance of one.                           *)
CountTolerated_NoAllowance(size) == size >= kLocationsToAwait

(* The operand of EXPECT_GE(sv_info_list_cbq_size + 1, kLocationsToAwait). *)
CountTolerated(size) == size + 1 >= kLocationsToAwait

(* The comparison without the USED_IN_FIX bit.                             *)
IsBlocklistedSvUsed_IgnoresFlag(gnss_sv, source) ==
    /\ gnss_sv.svid = source.svid
    /\ gnss_sv.constellation = source.constellation

(* The operand of the EXPECT_FALSE and of the if of the                    *)
(* BlocklistIndividualSatellites loops.                                    *)
IsBlocklistedSvUsed(gnss_sv, source) ==
    /\ gnss_sv.svid = source.svid
    /\ gnss_sv.constellation = source.constellation
    /\ gnss_sv.used

(* The comparison with the svid compared as well.                          *)
IsConstellationUsed_ComparesSvid(gnss_sv, source) ==
    /\ gnss_sv.svid = source.svid
    /\ gnss_sv.constellation = source.constellation
    /\ gnss_sv.used

(* The operand of the EXPECT_FALSEs of the BlocklistConstellation loops.   *)
IsConstellationUsed(gnss_sv, source) ==
    /\ gnss_sv.constellation = source.constellation
    /\ gnss_sv.used

(* The inner loop leaving after its first record.                          *)
ReobservedIn_FirstRecordOnly(sv_info_vec, iSv, source) ==
    /\ iSv <= Len(sv_info_vec)
    /\ IsBlocklistedSvUsed(sv_info_vec[iSv], source)

(* The inner loop of the re-observation check with its break: TRUE iff a   *)
(* record from iSv on is the source, used in fix.                          *)
RECURSIVE ReobservedIn(_, _, _)
ReobservedIn(sv_info_vec, iSv, source) ==
    IF iSv > Len(sv_info_vec) THEN FALSE
    ELSE IF IsBlocklistedSvUsed(sv_info_vec[iSv], source) THEN TRUE
    ELSE ReobservedIn(sv_info_vec, iSv + 1, source)

(* A while condition that lets one more round start.                       *)
LoopEnters_OneMore(reobs, rem) == ~reobs /\ rem >= 0

(* The while condition of the un-blocklist loop, with its post-decrement:  *)
(* the counter is read and decremented only if the first operand holds.    *)
LoopEnters(reobs, rem) == ~reobs /\ rem > 0
LoopRemaining(reobs, rem) == IF ~reobs THEN rem - 1 ELSE rem

(* A clean-up that sends the vector as it is.                              *)
ResizedToZero_Keeps(srcs) == srcs

(* sources.resize(0): the vector handed to the clearing setBlocklist.      *)
ResizedToZero(srcs) == <<>>

(* The two entries of the BlocklistConstellation tests.                    *)
ConstellationSources(c) == << Source(c, 0), Source(IRNSS, 0) >>

(* The first constellation, in queue order, of a record used in fix that   *)
(* is not GPS; the set is empty if there is none.                          *)
RECURSIVE FirstNonGps(_, _, _)
FirstNonGps(q, k, iSv) ==
    IF k > Len(q) THEN {}
    ELSE IF iSv > Len(q[k]) THEN FirstNonGps(q, k + 1, 1)
    ELSE IF q[k][iSv].used /\ q[k][iSv].constellation # GPS
         THEN {q[k][iSv].constellation}
         ELSE FirstNonGps(q, k, iSv + 1)

TestIdle ==
    /\ test = "none"
    /\ caps = 0
    /\ pc = "idle"
    /\ running = FALSE
    /\ sv_q = <<>>
    /\ delivered = 0
    /\ sv_size = 0
    /\ i = 0
    /\ source_to_blocklist = DefaultSource
    /\ sources = <<>>
    /\ hal_blocklist = <<>>
    /\ reobserved = FALSE
    /\ remaining = 0
    /\ log = <<>>
    /\ countFail = FALSE
    /\ failedRecs = {}
    /\ usedFail = FALSE
    /\ reobsFails = 0
    /\ atSize = <<>>
    /\ matched = FALSE
    /\ drained = FALSE
    /\ sv_tag = <<>>

(* A test body is entered: the fixture is set up, no session is on, the    *)
(* queues are empty.                                                       *)
TestEntered ==
    /\ test \in Tests \cup {PsdsTest}
    /\ caps \in Capabilities
    /\ pc = "begin"
    /\ running = FALSE
    /\ sv_q = <<>>
    /\ delivered = 0
    /\ sv_size = 0
    /\ i = 0
    /\ source_to_blocklist = DefaultSource
    /\ sources = <<>>
    /\ hal_blocklist = <<>>
    /\ reobserved = FALSE
    /\ remaining = 0
    /\ log = <<>>
    /\ countFail = FALSE
    /\ failedRecs = {}
    /\ usedFail = FALSE
    /\ reobsFails = 0
    /\ atSize = <<>>
    /\ matched = FALSE
    /\ drained = FALSE
    /\ sv_tag = <<>>


(* ---------------------------------------------------------------------- *)
(* Steps shared by the three tests                                         *)
(* ---------------------------------------------------------------------- *)

Finished == pc \in {"skipped", "passed_early", "done", "aborted"}

IsIndividual == test = "BlocklistIndividualSatellites"
IsLocationOff == test = "BlocklistConstellationLocationOff"
IsLocationOn == test = "BlocklistConstellationLocationOn"

(* The satellite-status callback of the running session stores a snapshot. *)
SvStatusCb ==
    /\ running
    /\ ~Finished
    /\ delivered < MaxSvQueue
    /\ \E sv_info_vec \in HalSvInfoVecs : sv_q' = QueueStore(sv_q, sv_info_vec)
    /\ sv_tag' = QueueStore(sv_tag, Len(log))
    /\ delivered' = delivered + 1
    /\ UNCHANGED <<test, caps, pc, running, sv_size, i, source_to_blocklist,
                   sources, hal_blocklist, reobserved, remaining, log,
                   countFail, failedRecs, usedFail, reobsFails, atSize,
                   matched, drained>>
    /\ UNCHANGED findVars

(* The capability check that opens each test body.                         *)
CapabilityGate ==
    /\ pc = "begin"
    /\ test \in Tests
    /\ pc' = IF ~HasCapability(caps, CAPABILITY_SATELLITE_BLOCKLIST) THEN "skipped"
             ELSE IF IsIndividual THEN "i_start1" ELSE "c_discover"
    /\ UNCHANGED <<test, caps, running, sv_q, delivered, sv_size, i,
                   source_to_blocklist, sources, hal_blocklist, reobserved,
                   remaining, log, countFail, failedRecs, usedFail,
                   reobsFails, atSize, matched, drained, sv_tag>>
    /\ UNCHANGED findVars

(* getExtensionGnssConfiguration and its two ASSERTs.                      *)
GetConfiguration ==
    /\ pc \in {"i_conf", "c_conf"}
    /\ \E ok \in BOOLEAN :
         /\ log' = log \o <<Op("getExtensionGnssConfiguration", 0, ok)>>
         /\ pc' = IF ~ok THEN "aborted"
                  ELSE IF IsIndividual THEN "i_setbl" ELSE "c_setbl"
    /\ UNCHANGED <<test, caps, running, sv_q, delivered, sv_size, i,
                   source_to_blocklist, sources, hal_blocklist, reobserved,
                   remaining, countFail, failedRecs, usedFail, reobsFails,
                   atSize, matched, drained, sv_tag>>
    /\ UNCHANGED findVars

(* The log after reset of the snapshot queue, reset of the location queue  *)
(* and StartAndCheckLocations.                                             *)
RestartLog(l) ==
    StartAndCheckLocations(l \o <<Op("sv_reset", 0, TRUE), Op("loc_reset", 0, TRUE)>>)

(* ---------------------------------------------------------------------- *)
(* BlocklistIndividualSatellites                                           *)
(* ---------------------------------------------------------------------- *)

(* location_cbq_.reset(); StartAndCheckLocations(kLocationsToAwait)        *)
I_StartFirst ==
    /\ pc = "i_start1"
    /\ log' = StartAndCheckLocations(log \o <<Op("loc_reset", 0, TRUE)>>)
    /\ running' = TRUE
    /\ delivered' = 0
    /\ pc' = "i_size1"
    /\ UNCHANGED <<test, caps, sv_q, sv_size, i, source_to_blocklist, sources,
                   hal_blocklist, reobserved, remaining, countFail,
                   failedRecs, usedFail, reobsFails, atSize, matched, drained,
                   sv_tag>>
    /\ UNCHANGED findVars

(* size() of the snapshot queue and the EXPECT_GE on it.                   *)
I_ReadSize1 ==
    /\ pc = "i_size1"
    /\ sv_size' = Len(sv_q)
    /\ atSize' = sv_q
    /\ countFail' = (countFail \/ ~CountTolerated(Len(sv_q)))
    /\ pc' = "i_retrieve1"
    /\ UNCHANGED <<test, caps, running, sv_q, delivered, i,
                   source_to_blocklist, sources, hal_blocklist, reobserved,
                   remaining, log, failedRecs, usedFail, reobsFails, matched,
                   drained, sv_tag>>
    /\ UNCHANGED findVars

(* A bulk retrieve that asks for as many snapshots as locations awaited.   *)
RequestedCount_Awaited(sv_info_list_cbq_size, awaited) == awaited

(* The count handed to the bulk retrieve: the size read before it.         *)
RequestedCount(sv_info_list_cbq_size, awaited) == sv_info_list_cbq_size

(* The bulk retrieve, ASSERT_EQ(count, size), the selection and the early  *)
(* return when the selection is the sentinel.                              *)
I_RetrieveAndFind ==
    /\ pc = "i_retrieve1"
    /\ LET asked == RequestedCount(sv_size, kLocationsToAwait)
           sv_info_vec_list == QueueFront(sv_q, asked)
           count == Len(sv_info_vec_list)
           choice == FindStrongFrequentNonGpsSource(sv_info_vec_list,
                                                    kLocationsToAwait - 1)
       IN  /\ sv_q' = QueueDrop(sv_q, asked)
           /\ sv_tag' = QueueDrop(sv_tag, asked)
           /\ drained' = TRUE
           /\ log' = log \o <<Op("retrieve", count, count = sv_size)>>
           /\ IF count # sv_size
              THEN pc' = "aborted" /\ UNCHANGED source_to_blocklist
              ELSE /\ source_to_blocklist' = choice
                   /\ pc' = IF choice.constellation = UNKNOWN
                            THEN "passed_early" ELSE "i_stop1"
    /\ UNCHANGED <<test, caps, running, delivered, sv_size, i, sources,
                   hal_blocklist, reobserved, remaining, countFail,
                   failedRecs, usedFail, reobsFails, atSize, matched>>
    /\ UNCHANGED findVars

(* StopAndClearLocations() before the blocklist is set.                    *)
I_StopToBlocklist ==
    /\ pc = "i_stop1"
    /\ log' = StopAndClearLocations(log)
    /\ running' = FALSE
    /\ pc' = "i_conf"
    /\ UNCHANGED <<test, caps, sv_q, delivered, sv_size, i,
                   source_to_blocklist, sources, hal_blocklist, reobserved,
                   remaining, countFail, failedRecs, usedFail, reobsFails,
                   atSize, matched, drained, sv_tag>>
    /\ UNCHANGED findVars

(* sources = {source_to_blocklist}; setBlocklist(sources); ASSERT ok.      *)
I_SetBlocklist ==
    /\ pc = "i_setbl"
    /\ sources' = <<source_to_blocklist>>
    /\ \E ok \in BOOLEAN :
         /\ log' = log \o <<Op("setBlocklist", 1, ok)>>
         /\ hal_blocklist' = IF ok THEN sources' ELSE hal_blocklist
         /\ pc' = IF ok THEN "i_start2" ELSE "aborted"
    /\ UNCHANGED <<test, caps, running, sv_q, delivered, sv_size, i,
                   source_to_blocklist, reobserved, remaining, countFail,
                   failedRecs, usedFail, reobsFails, atSize, matched, drained,
                   sv_tag>>
    /\ UNCHANGED findVars

(* Both queues are reset and the session is started again.                 *)
I_Restart ==
    /\ pc = "i_start2"
    /\ sv_q' = <<>>
    /\ sv_tag' = <<>>
    /\ log' = RestartLog(log)
    /\ running' = TRUE
    /\ delivered' = 0
    /\ pc' = "i_size2"
    /\ UNCHANGED <<test, caps, sv_size, i, source_to_blocklist, sources,
                   hal_blocklist, reobserved, remaining, countFail,
                   failedRecs, usedFail, reobsFails, atSize, matched, drained>>
    /\ UNCHANGED findVars

(* calledCount(), ASSERT_TRUE(location_called_count > 0), size() and the   *)
(* EXPECT_GE on it.                                                        *)
I_ReadSize2 ==
    /\ pc = "i_size2"
    /\ \E location_called_count \in 0..kLocationsToAwait :
         IF location_called_count > 0
         THEN /\ sv_size' = Len(sv_q)
              /\ atSize' = sv_q
              /\ countFail' = (countFail \/ ~CountTolerated(Len(sv_q)))
              /\ i' = 0
              /\ failedRecs' = {}
              /\ pc' = "i_check"
              /\ UNCHANGED log
         ELSE /\ pc' = "aborted"
              /\ log' = log \o <<Op("calledCount", 0, FALSE)>>
              /\ UNCHANGED <<sv_size, atSize, countFail, i, failedRecs>>
    /\ UNCHANGED <<test, caps, running, sv_q, delivered, source_to_blocklist,
                   sources, hal_blocklist, reobserved, remaining, usedFail,
                   reobsFails, matched, drained, sv_tag>>
    /\ UNCHANGED findVars

(* The records of a snapshot for which the EXPECT_FALSE fails, as          *)
(* <<snapshot number, record number, expectation number>>.                 *)
BlocklistedSvFailures(sv_info_vec, n, source) ==
    { <<n, iSv, 1>> : iSv \in {k \in 1..Len(sv_info_vec) :
                                 IsBlocklistedSvUsed(sv_info_vec[k], source)} }

(* One round of the loop that checks the blocklisted satellite is unused.  *)
I_CheckSnapshot ==
    /\ pc = "i_check"
    /\ i < sv_size
    /\ LET sv_info_vec == IF sv_q = <<>> THEN <<>> ELSE Head(sv_q)
           fails == BlocklistedSvFailures(sv_info_vec, i + 1, source_to_blocklist)
       IN  /\ sv_q' = QueueDrop(sv_q, 1)
           /\ sv_tag' = QueueDrop(sv_tag, 1)
           /\ drained' = TRUE
           /\ failedRecs' = failedRecs \cup fails
           /\ usedFail' = (usedFail \/ fails # {})
    /\ i' = i + 1
    /\ UNCHANGED <<test, caps, pc, running, delivered, sv_size,
                   source_to_blocklist, sources, hal_blocklist, reobserved,
                   remaining, log, countFail, reobsFails, atSize, matched>>
    /\ UNCHANGED findVars

(* sources.resize(0); setBlocklist(sources); ASSERT ok; the loop variables *)
(* of the un-blocklist loop are set up.                                    *)
I_ClearBlocklist ==
    /\ pc = "i_check"
    /\ i >= sv_size
    /\ sources' = ResizedToZero(sources)
    /\ \E ok \in BOOLEAN :
         /\ log' = log \o <<Op("setBlocklist", Len(sources'), ok)>>
         /\ hal_blocklist' = IF ok THEN sources' ELSE hal_blocklist
         /\ pc' = IF ok THEN "i_loop" ELSE "aborted"
    /\ reobserved' = FALSE
    /\ remaining' = kRetriesToUnBlocklist
    /\ failedRecs' = {}
    /\ atSize' = <<>>
    /\ UNCHANGED <<test, caps, running, sv_q, delivered, sv_size, i,
                   source_to_blocklist, countFail, usedFail, reobsFails,
                   matched, drained, sv_tag>>
    /\ UNCHANGED findVars

(* The while condition holds: stop, reset both queues, start again.        *)
I_LoopRound ==
    /\ pc = "i_loop"
    /\ LoopEnters(reobserved, remaining)
    /\ remaining' = LoopRemaining(reobserved, remaining)
    /\ sv_q' = <<>>
    /\ sv_tag' = <<>>
    /\ log' = RestartLog(StopAndClearLocations(log))
    /\ running' = TRUE
    /\ delivered' = 0
    /\ pc' = "i_size3"
    /\ UNCHANGED <<test, caps, sv_size, i, source_to_blocklist, sources,
                   hal_blocklist, reobserved, countFail, failedRecs, usedFail,
                   reobsFails, atSize, matched, drained>>
    /\ UNCHANGED findVars

(* The while condition fails.                                              *)
I_LoopExit ==
    /\ pc = "i_loop"
    /\ ~LoopEnters(reobserved, remaining)
    /\ remaining' = LoopRemaining(reobserved, remaining)
    /\ pc' = "i_final"
    /\ UNCHANGED <<test, caps, running, sv_q, delivered, sv_size, i,
                   source_to_blocklist, sources, hal_blocklist, reobserved,
                   log, countFail, failedRecs, usedFail, reobsFails, atSize,
                   matched, drained, sv_tag>>
    /\ UNCHANGED findVars

(* calledCount(), ASSERT_TRUE(location_called_count > 0), size() and the   *)
(* EXPECT_GE on it, inside the un-blocklist loop.                          *)
I_ReadSize3 ==
    /\ pc = "i_size3"
    /\ \E location_called_count \in 0..kLocationsToAwait :
         IF location_called_count > 0
         THEN /\ sv_size' = Len(sv_q)
              /\ countFail' = (countFail \/ ~CountTolerated(Len(sv_q)))
              /\ i' = 0
              /\ pc' = "i_check3"
              /\ UNCHANGED log
         ELSE /\ pc' = "aborted"
              /\ log' = log \o <<Op("calledCount", 0, FALSE)>>
              /\ UNCHANGED <<sv_size, countFail, i>>
    /\ UNCHANGED <<test, caps, running, sv_q, delivered, source_to_blocklist,
                   sources, hal_blocklist, reobserved, remaining, failedRecs,
                   usedFail, reobsFails, atSize, matched, drained, sv_tag>>
    /\ UNCHANGED findVars

(* One round of the loop that looks for the source; both breaks.           *)
I_ReobserveSnapshot ==
    /\ pc = "i_check3"
    /\ i < sv_size
    /\ LET sv_info_vec == IF sv_q = <<>> THEN <<>> ELSE Head(sv_q)
           hit == ReobservedIn(sv_info_vec, 1, source_to_blocklist)
       IN  /\ sv_q' = QueueDrop(sv_q, 1)
           /\ sv_tag' = QueueDrop(sv_tag, 1)
           /\ drained' = TRUE
           /\ reobserved' = hit
           /\ matched' = (matched \/
                          \E iSv \in 1..Len(sv_info_vec) :
                             /\ sv_info_vec[iSv].used
                             /\ Source(sv_info_vec[iSv].constellation,
                                       sv_info_vec[iSv].svid) = source_to_blocklist)
           /\ IF hit THEN pc' = "i_loop" /\ UNCHANGED i
                     ELSE pc' = pc /\ i' = i + 1
    /\ UNCHANGED <<test, caps, running, delivered, sv_size,
                   source_to_blocklist, sources, hal_blocklist, remaining,
                   log, countFail, failedRecs, usedFail, reobsFails, atSize>>
    /\ UNCHANGED findVars

(* The for loop of a round ends without a break.                           *)
I_RoundDone ==
    /\ pc = "i_check3"
    /\ i >= sv_size
    /\ pc' = "i_loop"
    /\ UNCHANGED <<test, caps, running, sv_q, delivered, sv_size, i,
                   source_to_blocklist, sources, hal_blocklist, reobserved,
                   remaining, log, countFail, failedRecs, usedFail,
                   reobsFails, atSize, matched, drained, sv_tag>>
    /\ UNCHANGED findVars

(* EXPECT_TRUE(strongest_sv_is_reobserved); StopAndClearLocations().       *)
I_Final ==
    /\ pc = "i_final"
    /\ reobsFails' = reobsFails + (IF reobserved THEN 0 ELSE 1)
    /\ log' = StopAndClearLocations(log)
    /\ running' = FALSE
    /\ pc' = "done"
    /\ UNCHANGED <<test, caps, sv_q, delivered, sv_size, i,
                   source_to_blocklist, sources, hal_blocklist, reobserved,
                   remaining, countFail, failedRecs, usedFail, atSize,
                   matched, drained, sv_tag>>
    /\ UNCHANGED findVars


(* ---------------------------------------------------------------------- *)
(* BlocklistConstellationLocationOff / BlocklistConstellationLocationOn    *)
(* ---------------------------------------------------------------------- *)

(* A body that stops the discovery session first in both tests.            *)
AfterDiscovery_StopFirst(t) == "c_stop1"

(* What follows startLocationAndGetNonGpsConstellation: the stop in        *)
(* LocationOff, the building and sending of the blocklist in LocationOn.   *)
AfterDiscovery(t) ==
    IF t = "BlocklistConstellationLocationOff" THEN "c_stop1" ELSE "c_conf"

(* What follows the stop of the discovery session.                         *)
AfterStop(t) ==
    IF t = "BlocklistConstellationLocationOff" THEN "c_conf" ELSE "c_start2"

(* What follows the successful setBlocklist of the two entries.            *)
AfterSetBlocklist(t) ==
    IF t = "BlocklistConstellationLocationOff" THEN "c_start2" ELSE "c_stop1"

(* startLocationAndGetNonGpsConstellation, first half: the location queue  *)
(* is reset and the discovery session is started.                          *)
C_Discover ==
    /\ pc = "c_discover"
    /\ log' = StartAndCheckLocations(log \o <<Op("loc_reset", 0, TRUE)>>)
    /\ running' = TRUE
    /\ delivered' = 0
    /\ pc' = "c_found"
    /\ UNCHANGED <<test, caps, sv_q, sv_size, i, source_to_blocklist, sources,
                   hal_blocklist, reobserved, remaining, countFail,
                   failedRecs, usedFail, reobsFails, atSize, matched, drained,
                   sv_tag>>
    /\ UNCHANGED findVars

(* startLocationAndGetNonGpsConstellation, second half: it reads some      *)
(* snapshots off the queue and returns the first non-GPS constellation it  *)
(* saw used in fix; source_to_blocklist_1 gets that constellation and the  *)
(* wildcard svid 0.                                                        *)
C_GetConstellation ==
    /\ pc = "c_found"
    /\ LET seen == FirstNonGps(sv_q, 1, 1)
       IN  \E c \in (IF seen = {} THEN FallbackConstellations ELSE seen) :
              source_to_blocklist' = Source(c, 0)
    /\ \E n \in 0..Len(sv_q) :
         sv_q' = QueueDrop(sv_q, n) /\ sv_tag' = QueueDrop(sv_tag, n)
    /\ pc' = AfterDiscovery(test)
    /\ UNCHANGED <<test, caps, running, delivered, sv_size, i, sources,
                   hal_blocklist, reobserved, remaining, log, countFail,
                   failedRecs, usedFail, reobsFails, atSize, matched, drained>>
    /\ UNCHANGED findVars

(* StopAndClearLocations() of the discovery session: before the blocklist  *)
(* is built in LocationOff, after setBlocklist in LocationOn.              *)
C_Stop ==
    /\ pc = "c_stop1"
    /\ log' = StopAndClearLocations(log)
    /\ running' = FALSE
    /\ pc' = AfterStop(test)
    /\ UNCHANGED <<test, caps, sv_q, delivered, sv_size, i,
                   source_to_blocklist, sources, hal_blocklist, reobserved,
                   remaining, countFail, failedRecs, usedFail, reobsFails,
                   atSize, matched, drained, sv_tag>>
    /\ UNCHANGED findVars

(* sources = {source_to_blocklist_1, source_to_blocklist_2};               *)
(* setBlocklist(sources); ASSERT ok.                                       *)
C_SetBlocklist ==
    /\ pc = "c_setbl"
    /\ sources' = ConstellationSources(source_to_blocklist.constellation)
    /\ \E ok \in BOOLEAN :
         /\ log' = log \o <<Op("setBlocklist", Len(sources'), ok)>>
         /\ hal_blocklist' = IF ok THEN sources' ELSE hal_blocklist
         /\ pc' = IF ~ok THEN "aborted" ELSE AfterSetBlocklist(test)
    /\ UNCHANGED <<test, caps, running, sv_q, delivered, sv_size, i,
                   source_to_blocklist, reobserved, remaining, countFail,
                   failedRecs, usedFail, reobsFails, atSize, matched, drained,
                   sv_tag>>
    /\ UNCHANGED findVars

(* The checked session started without the reset of the snapshot queue.   *)
C_Restart_KeepsQueue ==
    /\ pc = "c_start2"
    /\ log' = RestartLog(log)
    /\ running' = TRUE
    /\ delivered' = 0
    /\ pc' = "c_size"
    /\ UNCHANGED <<test, caps, sv_q, sv_size, i, source_to_blocklist, sources,
                   hal_blocklist, reobserved, remaining, countFail,
                   failedRecs, usedFail, reobsFails, atSize, matched, drained,
                   sv_tag>>
    /\ UNCHANGED findVars

(* Both queues are reset and the checked session is started.               *)
C_Restart ==
    /\ pc = "c_start2"
    /\ sv_q' = <<>>
    /\ sv_tag' = <<>>
    /\ log' = RestartLog(log)
    /\ running' = TRUE
    /\ delivered' = 0
    /\ pc' = "c_size"
    /\ UNCHANGED <<test, caps, sv_size, i, source_to_blocklist, sources,
                   hal_blocklist, reobserved, remaining, countFail,
                   failedRecs, usedFail, reobsFails, atSize, matched, drained>>
    /\ UNCHANGED findVars

(* size() of the snapshot queue and the EXPECT_GE on it.                   *)
C_ReadSize ==
    /\ pc = "c_size"
    /\ sv_size' = Len(sv_q)
    /\ atSize' = sv_q
    /\ countFail' = (countFail \/ ~CountTolerated(Len(sv_q)))
    /\ i' = 0
    /\ failedRecs' = {}
    /\ pc' = "c_check"
    /\ UNCHANGED <<test, caps, running, sv_q, delivered, source_to_blocklist,
                   sources, hal_blocklist, reobserved, remaining, log,
                   usedFail, reobsFails, matched, drained, sv_tag>>
    /\ UNCHANGED findVars

(* The records of a snapshot for which the first (1) and the second (2)    *)
(* EXPECT_FALSE fail, as <<snapshot number, record number, expectation>>.  *)
ConstellationFailures(sv_info_vec, n, srcs) ==
    { <<n, iSv, e>> : iSv \in 1..Len(sv_info_vec), e \in 1..Len(srcs) } \cap
    { t \in (1..n) \X (1..Len(sv_info_vec)) \X (1..Len(srcs)) :
        IsConstellationUsed(sv_info_vec[t[2]], srcs[t[3]]) }

(* One round of the loop that checks both constellations are unused.       *)
C_CheckSnapshot ==
    /\ pc = "c_check"
    /\ i < sv_size
    /\ LET sv_info_vec == IF sv_q = <<>> THEN <<>> ELSE Head(sv_q)
           fails == ConstellationFailures(sv_info_vec, i + 1, sources)
       IN  /\ sv_q' = QueueDrop(sv_q, 1)
           /\ sv_tag' = QueueDrop(sv_tag, 1)
           /\ drained' = TRUE
           /\ failedRecs' = failedRecs \cup fails
           /\ usedFail' = (usedFail \/ fails # {})
    /\ i' = i + 1
    /\ UNCHANGED <<test, caps, pc, running, delivered, sv_size,
                   source_to_blocklist, sources, hal_blocklist, reobserved,
                   remaining, log, countFail, reobsFails, atSize, matched>>
    /\ UNCHANGED findVars

(* Clean up: StopAndClearLocations().                                      *)
C_CleanupStop ==
    /\ pc = "c_check"
    /\ i >= sv_size
    /\ log' = StopAndClearLocations(log)
    /\ running' = FALSE
    /\ pc' = "c_clear"
    /\ UNCHANGED <<test, caps, sv_q, delivered, sv_size, i,
                   source_to_blocklist, sources, hal_blocklist, reobserved,
                   remaining, countFail, failedRecs, usedFail, reobsFails,
                   atSize, matched, drained, sv_tag>>
    /\ UNCHANGED findVars

(* Clean up: sources.resize(0); setBlocklist(sources); ASSERT ok.          *)
C_CleanupClear ==
    /\ pc = "c_clear"
    /\ sources' = ResizedToZero(sources)
    /\ \E ok \in BOOLEAN :
         /\ log' = log \o <<Op("setBlocklist", Len(sources'), ok)>>
         /\ hal_blocklist' = IF ok THEN sources' ELSE hal_blocklist
         /\ pc' = IF ok THEN "done" ELSE "aborted"
    /\ UNCHANGED <<test, caps, running, sv_q, delivered, sv_size, i,
                   source_to_blocklist, reobserved, remaining, countFail,
                   failedRecs, usedFail, reobsFails, atSize, matched, drained,
                   sv_tag>>
    /\ UNCHANGED findVars

(* ---------------------------------------------------------------------- *)
(* TestPsdsExtension                                                       *)
(* ---------------------------------------------------------------------- *)

IsPsds == test = PsdsTest

(* The two ASSERT_TRUEs on getExtensionPsds: status ok, handle non-null.   *)
PsdsObtained(ok, nonnull) == ok /\ nonnull

(* A test that expects the injection to succeed.                           *)
InjectionAsExpected_Ok(ok) == ok

(* The operand of ASSERT_FALSE(status.isOk()) after injectPsdsData.        *)
InjectionAsExpected(ok) == ~ok

(* getExtensionPsds and its two ASSERTs; n is 1 for a non-null handle.     *)
P_GetExtension ==
    /\ pc = "begin"
    /\ IsPsds
    /\ \E ok \in BOOLEAN, nonnull \in BOOLEAN :
         /\ log' = log \o <<Op("getExtensionPsds", IF nonnull THEN 1 ELSE 0, ok)>>
         /\ pc' = IF PsdsObtained(ok, nonnull) THEN "p_inject" ELSE "aborted"
    /\ UNCHANGED <<test, caps, running, sv_q, delivered, sv_size, i,
                   source_to_blocklist, sources, hal_blocklist, reobserved,
                   remaining, countFail, failedRecs, usedFail, reobsFails,
                   atSize, matched, drained, sv_tag>>
    /\ UNCHANGED findVars

(* injectPsdsData(LONG_TERM, empty vector) and the ASSERT_FALSE; n is the  *)
(* size of the payload.                                                    *)
P_Inject ==
    /\ pc = "p_inject"
    /\ \E ok \in BOOLEAN :
         /\ log' = log \o <<Op("injectPsdsData", 0, ok)>>
         /\ pc' = IF InjectionAsExpected(ok) THEN "done" ELSE "aborted"
    /\ UNCHANGED <<test, caps, running, sv_q, delivered, sv_size, i,
                   source_to_blocklist, sources, hal_blocklist, reobserved,
                   remaining, countFail, failedRecs, usedFail, reobsFails,
                   atSize, matched, drained, sv_tag>>
    /\ UNCHANGED findVars

(* ---------------------------------------------------------------------- *)
(* Specifications                                                          *)
(* ---------------------------------------------------------------------- *)

(* The test bodies, each run against a HAL that answers as it likes.       *)
Init == TestEntered /\ FindIdle

Next ==
    \/ SvStatusCb
    \/ CapabilityGate
    \/ GetConfiguration
    \/ I_StartFirst
    \/ I_ReadSize1
    \/ I_RetrieveAndFind
    \/ I_StopToBlocklist
    \/ I_SetBlocklist
    \/ I_Restart
    \/ I_ReadSize2
    \/ I_CheckSnapshot
    \/ I_ClearBlocklist
    \/ I_LoopRound
    \/ I_LoopExit
    \/ I_ReadSize3
    \/ I_ReobserveSnapshot
    \/ I_RoundDone
    \/ I_Final
    \/ C_Discover
    \/ C_GetConstellation
    \/ C_Stop
    \/ C_SetBlocklist
    \/ C_Restart
    \/ C_ReadSize
    \/ C_CheckSnapshot
    \/ C_CleanupStop
    \/ C_CleanupClear
    \/ P_GetExtension
    \/ P_Inject

Spec == Init /\ [][Next]_vars

(* The steps of the un-blocklist loop of BlocklistIndividualSatellites and *)
(* the step that follows it.  Every call they make returns: the waits on   *)
(* the queues are bounded by timeouts.                                     *)
LoopStep ==
    \/ I_LoopRound
    \/ I_LoopExit
    \/ I_ReadSize3
    \/ I_ReobserveSnapshot
    \/ I_RoundDone
    \/ I_Final

(* The test bodies with a test thread that is not stopped for ever inside  *)
(* the un-blocklist loop.                                                  *)
FairSpec == Spec /\ WF_vars(LoopStep)

(* FindStrongFrequentNonGpsSource applied to every bounded input.          *)
InitFind == FindCalled /\ TestIdle

NextFind == FindScan \/ FindSelect

SpecFind == InitFind /\ [][NextFind]_vars

(* FindStrongFrequentNonGpsSource applied to every bounded input of tied   *)
(* records.                                                                *)
InitTied == FindCalledOnTied /\ TestIdle

SpecTied == InitTied /\ [][NextFind]_vars


(* ---------------------------------------------------------------------- *)
(* What the input of FindStrongFrequentNonGpsSource holds, stated on the   *)
(* input itself                                                            *)
(* ---------------------------------------------------------------------- *)

(* The positions <<snapshot, record>> of the records of a list.            *)
Positions(list) ==
    UNION { { <<k, j>> : j \in 1..Len(list[k]) } : k \in 1..Len(list) }

(* The positions of the used-in-fix records of group g.                    *)
GroupPositions(list, g) ==
    { p \in Positions(list) :
        /\ list[p[1]][p[2]].used
        /\ list[p[1]][p[2]].constellation = g.constellation
        /\ list[p[1]][p[2]].svid = g.svid }

(* The non-GPS groups that have a used-in-fix record.                      *)
NonGpsGroups(list) ==
    { Source(list[p[1]][p[2]].constellation, list[p[1]][p[2]].svid) :
        p \in { q \in Positions(list) :
                  list[q[1]][q[2]].used /\ list[q[1]][q[2]].constellation # GPS } }

(* The groups observed at least min times.                                 *)
QualifyingGroups(list, min) ==
    { g \in NonGpsGroups(list) : Cardinality(GroupPositions(list, g)) >= min }

(* The largest strength recorded for group g.                              *)
GroupMax(list, g) ==
    LET strengths == { list[p[1]][p[2]].cN0Dbhz : p \in GroupPositions(list, g) }
    IN  CHOOSE x \in strengths : \A y \in strengths : y <= x

(* The qualifying groups whose largest strength is the highest of all.     *)
TopGroups(list, min) ==
    { g \in QualifyingGroups(list, min) :
        \A h \in QualifyingGroups(list, min) : GroupMax(list, h) <= GroupMax(list, g) }

(* Position p comes before position q in the input.                        *)
Earlier(p, q) == p[1] < q[1] \/ (p[1] = q[1] /\ p[2] < q[2])

(* The group of a set of groups whose first record comes first.            *)
FirstSeen(list, groups) ==
    CHOOSE g \in groups :
      \E p \in GroupPositions(list, g) :
        \A h \in groups \ {g} : \A q \in GroupPositions(list, h) : Earlier(p, q)

(* The group of a set of groups with the lowest svid and, among those,     *)
(* the lowest constellation value.                                         *)
LowestKey(groups) ==
    CHOOSE g \in groups :
      \A h \in groups \ {g} :
        h.svid > g.svid \/ (h.svid = g.svid /\ h.constellation > g.constellation)

FindDone == fpc = "done"

(* ---------------------------------------------------------------------- *)
(* Claims about FindStrongFrequentNonGpsSource (under SpecFind)            *)
(* ---------------------------------------------------------------------- *)

(* C1: whenever some non-GPS used-in-fix group is observed at least        *)
(* min_observations times, the source returned is such a group and no      *)
(* other such group has a larger maximum strength -- also when all         *)
(* recorded strengths are 0 or negative.                                   *)
C1_ReturnsStrongestQualifying ==
    (FindDone /\ QualifyingGroups(sv_info_list, min_observations) # {})
    => found \in TopGroups(sv_info_list, min_observations)

(* C2: the source returned never has the constellation GPS.                *)
C2_NeverReturnsGps ==
    FindDone => found.constellation # GPS

(* A list in which a used-in-fix GPS satellite is seen twice and is        *)
(* stronger than every other satellite, with a non-GPS source returned.    *)
C2_Witness ==
    /\ FindDone
    /\ min_observations = 2
    /\ Cardinality(GroupPositions(sv_info_list, Source(GPS, 3))) >= 2
    /\ found # DefaultSource
    /\ GroupMax(sv_info_list, found) < 35

(* C3: the sentinel (UNKNOWN, 0) is returned whenever no non-GPS           *)
(* used-in-fix group is observed at least min_observations times.          *)
C3_SentinelWhenNoneQualifies ==
    (FindDone /\ QualifyingGroups(sv_info_list, min_observations) = {})
    => found = DefaultSource

(* A non-GPS satellite of positive strength is used in fix, but seen too   *)
(* rarely, and the sentinel is returned.                                   *)
C3_Witness ==
    /\ FindDone
    /\ QualifyingGroups(sv_info_list, min_observations) = {}
    /\ GroupPositions(sv_info_list, Source(GLONASS, 7)) # {}
    /\ found = DefaultSource

LogPlaces(o, n) == { k \in 1..Len(log) : log[k].op = o /\ log[k].n = n }

(* The last start or stop before place k of the log, "none" if there is    *)
(* none.                                                                   *)
SessionOpBefore(k) ==
    LET before == { j \in 1..(k - 1) : log[j].op \in {"start", "stop"} }
    IN  IF before = {} THEN "none"
        ELSE log[CHOOSE j \in before : \A h \in before : h <= j].op

(* The sessions started after the blocklist was cleared.                   *)
RoundsStarted ==
    LET cleared == LogPlaces("setBlocklist", 0)
    IN  Cardinality({ k \in 1..Len(log) :
                        /\ log[k].op = "start"
                        /\ \E c \in cleared : c < k })

(* The places <<snapshot, record>> among the first n snapshots of the      *)
(* queue content read by size() whose record is used in fix and is of      *)
(* one of the given constellations and, if any are given, svids.           *)
UsedPlaces(n, constellations, svids) ==
    { p \in Positions(SubSeq(atSize, 1, n)) :
        /\ atSize[p[1]][p[2]].used
        /\ atSize[p[1]][p[2]].constellation \in constellations
        /\ (svids = {} \/ atSize[p[1]][p[2]].svid \in svids) }

(* The places for which an EXPECT_FALSE of the current check has failed.   *)
FailedPlaces == { <<t[1], t[2]>> : t \in failedRecs }

(* ---------------------------------------------------------------------- *)
(* Claims about the test bodies (under Spec)                               *)
(* ---------------------------------------------------------------------- *)

(* C4: in BlocklistIndividualSatellites, once setBlocklist([source]) has   *)
(* succeeded, the check fails softly for exactly the records, among the    *)
(* snapshots that were queued when size() was read and have been examined  *)
(* so far, that carry the blocklisted svid and constellation and are used  *)
(* in fix; the loop goes on after a failure, and no failure is recorded    *)
(* when no examined record matches.                                        *)
C4_BlocklistedSvFailsSoftly ==
    (IsIndividual /\ pc = "i_check")
    => /\ hal_blocklist = <<source_to_blocklist>>
       /\ i <= sv_size
       /\ FailedPlaces = UsedPlaces(i, {source_to_blocklist.constellation},
                                    {source_to_blocklist.svid})

(* The loop has examined three snapshots; the first one failed the check,  *)
(* a later one did not.                                                    *)
C4_Witness ==
    /\ IsIndividual
    /\ pc = "i_check"
    /\ i = sv_size
    /\ sv_size = 3
    /\ \E t \in failedRecs : t[1] = 1
    /\ ~ \E t \in failedRecs : t[1] = 3

(* C5: in BlocklistIndividualSatellites, at the end, the final             *)
(* expectation has passed iff a snapshot examined in one of the rounds     *)
(* after the blocklist was cleared marks the source as used in fix; there  *)
(* are at least 1 and at most kRetriesToUnBlocklist rounds, and if no      *)
(* round re-observed the source all of them have run and exactly one       *)
(* failure is recorded.                                                    *)
C5_ReobservedWithinRetries ==
    (IsIndividual /\ pc = "done")
    => /\ (reobsFails = 0) <=> matched
       /\ RoundsStarted \in 1..kRetriesToUnBlocklist
       /\ ~matched => (reobsFails = 1 /\ RoundsStarted = kRetriesToUnBlocklist)

(* All rounds ran without re-observing the source: one failure.            *)
C5_Witness ==
    /\ IsIndividual
    /\ pc = "done"
    /\ ~matched
    /\ reobsFails = 1
    /\ RoundsStarted = kRetriesToUnBlocklist

(* C6: without the SATELLITE_BLOCKLIST capability each of the three tests  *)
(* returns at once: no session is started, no queue is reset or drained,   *)
(* setBlocklist is not called and no failure is recorded.                  *)
C6_SkippedWithoutCapability ==
    (test \in Tests /\ caps \in {0, CAPABILITY_SCHEDULING})
    => /\ pc \in {"begin", "skipped"}
       /\ log = <<>>
       /\ ~running
       /\ ~drained
       /\ hal_blocklist = <<>>
       /\ ~countFail /\ ~usedFail /\ reobsFails = 0

(* A HAL that reports another capability only: the test has returned.      *)
C6_Witness ==
    /\ caps = CAPABILITY_SCHEDULING
    /\ pc = "skipped"

(* C8 as stated: in BlocklistIndividualSatellites the empty blocklist is   *)
(* sent only when the session of step 3 has been stopped: the last         *)
(* session operation before setBlocklist(empty) is a stop.                 *)
C8_EmptyBlocklistAfterStop ==
    IsIndividual
    => \A k \in LogPlaces("setBlocklist", 0) : SessionOpBefore(k) = "stop"

(* C9: the two-entry blocklist is sent after the stop of the discovery     *)
(* session in LocationOff and while that session runs, before its stop,    *)
(* in LocationOn; in both, the checked session is started only after the   *)
(* stop and the successful setBlocklist.                                   *)
C9_BlocklistOrderOffAndOn ==
    (IsLocationOff \/ IsLocationOn)
    => /\ \A k \in LogPlaces("setBlocklist", 2) :
            SessionOpBefore(k) = IF IsLocationOff THEN "stop" ELSE "start"
       /\ \A r \in LogPlaces("sv_reset", 0) :
            \E k \in LogPlaces("setBlocklist", 2) :
              \E st \in LogPlaces("stop", 0) :
                /\ log[k].ok
                /\ k < r /\ st < r
                /\ IF IsLocationOff THEN st < k ELSE k < st
                /\ SessionOpBefore(r) = "stop"

(* LocationOn has started its checked session.                             *)
C9_Witness ==
    /\ IsLocationOn
    /\ pc = "c_size"
    /\ running
    /\ LogPlaces("sv_reset", 0) # {}

LastOp == log[Len(log)]

(* C11: when BlocklistConstellationLocationOff or ...LocationOn reaches    *)
(* its end without a hard failure, its last two operations are a session   *)
(* stop and then a successful setBlocklist of an empty list: no session    *)
(* runs and the blocklist the HAL holds is empty.                          *)
C11_CleanupStopsThenClears ==
    ((IsLocationOff \/ IsLocationOn) /\ pc = "done")
    => /\ Len(log) >= 2
       /\ LastOp = Op("setBlocklist", 0, TRUE)
       /\ log[Len(log) - 1] = Op("stop", 0, TRUE)
       /\ ~running
       /\ hal_blocklist = <<>>

(* LocationOn ends after a check that recorded soft failures.              *)
C11_Witness ==
    /\ IsLocationOn
    /\ pc = "done"
    /\ usedFail
    /\ LogPlaces("setBlocklist", 2) # {}

(* The operations whose failure is a hard assertion failure.               *)
AssertedOps ==
    {"getExtensionGnssConfiguration", "setBlocklist", "calledCount",
     "getExtensionPsds", "injectPsdsData"}

(* C12: a snapshot-queue size of at least kLocationsToAwait - 1 records no *)
(* failure and a smaller one records a soft failure; the test is never     *)
(* aborted because of the snapshot count -- every abort follows a failed   *)
(* HAL call or a zero location count -- and the snapshots present are      *)
(* examined up to the size read.                                           *)
C12_CountToleratedSoftly ==
    /\ pc \in {"i_retrieve1", "c_check"}
         => (countFail <=> sv_size < kLocationsToAwait - 1)
    /\ pc \in {"i_check", "i_check3"}
         => (sv_size < kLocationsToAwait - 1 => countFail)
    /\ pc \in {"i_check", "i_check3", "c_check"} => i <= sv_size
    /\ pc = "aborted"
         => /\ log # <<>>
            /\ LastOp.op \in AssertedOps
            /\ \/ ~LastOp.ok
               \/ LastOp.op = "getExtensionPsds" /\ LastOp.n = 0
               \/ LastOp.op = "injectPsdsData"

(* One snapshot only was queued: a soft failure, and the snapshot has been *)
(* examined.                                                               *)
C12_Witness ==
    /\ pc = "c_check"
    /\ sv_size = 1
    /\ countFail
    /\ i = 1
    /\ drained

(* C13: TestPsdsExtension fails hard if getExtensionPsds does not report   *)
(* success or yields a null handle; injectPsdsData is called at most once, *)
(* with an empty payload, and only after both checks passed; the test      *)
(* passes iff that injection is reported as not successful.                *)
C13_PsdsRejectsEmptyPayload ==
    IsPsds
    => /\ \A k \in 1..Len(log) :
            log[k].op = "getExtensionPsds" /\ (~log[k].ok \/ log[k].n = 0)
            => (pc = "aborted" /\ Len(log) = k)
       /\ \A k \in 1..Len(log) :
            log[k].op = "injectPsdsData"
            => /\ k = 2
               /\ log[k].n = 0
               /\ log[1] = Op("getExtensionPsds", 1, TRUE)
       /\ Len(log) <= 2
       /\ Finished
            => /\ pc \in {"done", "aborted"}
               /\ pc = "done" <=> (Len(log) = 2 /\ ~log[2].ok)

(* The HAL rejected the empty payload and the test has passed.             *)
C13_Witness ==
    /\ IsPsds
    /\ pc = "done"
    /\ log = << Op("getExtensionPsds", 1, TRUE), Op("injectPsdsData", 0, FALSE) >>

(* ---------------------------------------------------------------------- *)
(* Further claims about FindStrongFrequentNonGpsSource (under SpecFind)    *)
(* ---------------------------------------------------------------------- *)

(* C14: after the scan the map holds one entry for every non-GPS group     *)
(* with a used-in-fix record and no other; its count is the number of      *)
(* used-in-fix records of the group in the whole input and its maximum is  *)
(* the largest strength among them, wherever they stand; the strengths     *)
(* 30, 35, 28 of (GLONASS, 7) with threshold 2 give (GLONASS, 7) with      *)
(* maximum 35.                                                             *)
C14_AggregatesPerSource ==
    (fpc \in {"select", "done"})
    => /\ { mapSignals[k].id : k \in 1..Len(mapSignals) } = NonGpsGroups(sv_info_list)
       /\ Len(mapSignals) = Cardinality(NonGpsGroups(sv_info_list))
       /\ \A k \in 1..Len(mapSignals) :
            /\ mapSignals[k].observations =
                 Cardinality(GroupPositions(sv_info_list, mapSignals[k].id))
            /\ mapSignals[k].max_cn0_dbhz = GroupMax(sv_info_list, mapSignals[k].id)
       /\ (sv_info_list = ExampleList /\ min_observations = 2)
            => /\ mapSignals = << [id |-> Source(GLONASS, 7), observations |-> 3,
                                   max_cn0_dbhz |-> 35] >>
               /\ FindDone => found = Source(GLONASS, 7)

(* The example has been scanned and its source returned.                   *)
C14_Witness ==
    /\ FindDone
    /\ sv_info_list = ExampleList
    /\ min_observations = 2
    /\ found = Source(GLONASS, 7)
    /\ mapSignals[1].max_cn0_dbhz = 35

(* ---------------------------------------------------------------------- *)
(* Further claims about the test bodies (under Spec and FairSpec)          *)
(* ---------------------------------------------------------------------- *)

(* C15: in the first session of BlocklistIndividualSatellites the bulk     *)
(* retrieve returns as many snapshots as size() read just before it,       *)
(* whatever the callbacks of the running session store in between: the     *)
(* ASSERT_EQ never fails.                                                  *)
C15_BulkRetrieveReturnsSize ==
    IsIndividual
    => /\ \A k \in 1..Len(log) : log[k].op = "retrieve" => log[k].ok
       /\ pc \in {"i_stop1", "passed_early"}
            => /\ LastOp.op = "retrieve"
               /\ LastOp.n = sv_size
               /\ sv_size = Len(atSize)

(* A snapshot stored after size() was read and before the retrieve is      *)
(* still in the queue after the retrieve.                                  *)
C15_Witness ==
    /\ IsIndividual
    /\ pc = "i_stop1"
    /\ sv_size >= 1
    /\ sv_q # <<>>
    /\ sv_tag[1] < Len(log)
    /\ LastOp = Op("retrieve", sv_size, TRUE)

(* The places of the log where a round of the un-blocklist loop starts     *)
(* its session.                                                            *)
RoundStarts ==
    { k \in 1..Len(log) :
        /\ log[k].op = "start"
        /\ \E c \in LogPlaces("setBlocklist", 0) : c < k }

(* What holds of the un-blocklist loop in every state.                     *)
C16_LoopShape ==
    IsIndividual
    => /\ RoundsStarted \in 0..kRetriesToUnBlocklist
       /\ pc \in {"i_final", "done"} => RoundsStarted >= 1
       /\ pc \in {"i_loop", "i_size3", "i_check3"}
            => remaining = kRetriesToUnBlocklist - RoundsStarted
       /\ \A k \in RoundStarts :
            /\ k > 3
            /\ log[k - 3].op = "stop"
            /\ log[k - 2].op = "sv_reset"
            /\ log[k - 1].op = "loc_reset"
       /\ matched => (reobserved /\ pc \in {"i_loop", "i_final", "done"})
       /\ (log # <<>> /\ LastOp.op = "calledCount") => pc = "aborted"

(* C16: the un-blocklist loop of BlocklistIndividualSatellites always      *)
(* terminates; it runs at least 1 and at most kRetriesToUnBlocklist        *)
(* rounds, each doing stop, snapshot-queue reset, location-queue reset and *)
(* start in that order; no round starts once the source was re-observed,   *)
(* and a round with zero locations aborts the test.                        *)
C16_RetryLoopTerminates ==
    /\ []C16_LoopShape
    /\ (IsIndividual /\ pc = "i_loop") ~> (pc \in {"done", "aborted"})

(* The loop has been left after its last round.                            *)
C16_Witness ==
    /\ IsIndividual
    /\ pc = "i_final"
    /\ RoundsStarted = kRetriesToUnBlocklist
    /\ remaining = -1

(* C17 as stated: BlocklistIndividualSatellites returns early only when    *)
(* the snapshots of the first session hold no non-GPS used-in-fix source   *)
(* observed at least kLocationsToAwait - 1 times.                          *)
C17_EarlyReturnOnlyWithoutCandidate ==
    (IsIndividual /\ pc = "passed_early")
    => QualifyingGroups(atSize, kLocationsToAwait - 1) = {}

(* C18: in the three blocklist tests every snapshot the used-in-fix check  *)
(* can examine was stored after a non-empty setBlocklist had succeeded and *)
(* after the snapshot queue was reset.                                     *)
C18_ExaminedSnapshotsAreFresh ==
    (pc \in {"i_check", "c_check"})
    => \A j \in 1..Len(sv_tag) :
         /\ \E b \in 1..Len(log) :
              /\ log[b].op = "setBlocklist" /\ log[b].n > 0 /\ log[b].ok
              /\ b <= sv_tag[j]
         /\ \E r \in LogPlaces("sv_reset", 0) : r <= sv_tag[j]

(* LocationOn has examined the first of two snapshots of its checked       *)
(* session and has recorded a failure.                                     *)
C18_Witness ==
    /\ IsLocationOn
    /\ pc = "c_check"
    /\ i = 1
    /\ sv_size = 2
    /\ Len(sv_tag) >= 1
    /\ usedFail

(* C19 as stated: whenever BlocklistIndividualSatellites returns without   *)
(* a hard failure after having started a session, its last session         *)
(* operation is a stop and no session is left running.                     *)
C19_ReturnsWithSessionStopped ==
    (IsIndividual /\ pc \in {"passed_early", "done"} /\ LogPlaces("start", 0) # {})
    => /\ SessionOpBefore(Len(log) + 1) = "stop"
       /\ ~running

(* C20 as stated: on every exit of a blocklist test that follows a         *)
(* successful setBlocklist of a non-empty list, a setBlocklist of an empty *)
(* list has been issued after it.                                          *)
C20_BlocklistClearedOnEveryExit ==
    (test \in Tests /\ Finished)
    => \A b \in 1..Len(log) :
         (log[b].op = "setBlocklist" /\ log[b].n > 0 /\ log[b].ok)
         => \E c \in LogPlaces("setBlocklist", 0) : b < c

(* ---------------------------------------------------------------------- *)
(* Reorderings of the input of FindStrongFrequentNonGpsSource              *)
(* ---------------------------------------------------------------------- *)

(* The sequences that hold the elements of seq in another order.           *)
SeqPerms(seq) ==
    { [k \in 1..Len(seq) |-> seq[f[k]]] :
        f \in { g \in [1..Len(seq) -> 1..Len(seq)] :
                  \A a, b \in 1..Len(seq) : g[a] = g[b] => a = b } }

(* The lists that hold the snapshots of list from snapshot k on, each      *)
(* with its records in any order.                                          *)
RECURSIVE RecordPermsFrom(_, _)
RecordPermsFrom(list, k) ==
    IF k > Len(list) THEN {<<>>}
    ELSE { <<h>> \o t : h \in SeqPerms(list[k]), t \in RecordPermsFrom(list, k + 1) }

RecordPerms(list) == RecordPermsFrom(list, 1)

(* Every permutation of the snapshots with every permutation of the        *)
(* records inside each snapshot.                                           *)
Reorderings(list) == UNION { RecordPerms(l) : l \in SeqPerms(list) }

(* C21: for a fixed min_observations the source returned is the same for   *)
(* every permutation of the snapshots and every permutation of the records *)
(* inside each snapshot, ties on the highest maximum strength included.    *)
C21_OrderIndependent ==
    FindDone
    => \A l \in Reorderings(sv_info_list) :
         FindStrongFrequentNonGpsSource(l, min_observations) = found

(* Two groups tie on the highest strength, a reordering of the input shows *)
(* the other one first, and the same group is returned for both.           *)
C21_Witness ==
    /\ FindDone
    /\ Cardinality(TopGroups(sv_info_list, min_observations)) >= 2
    /\ found # DefaultSource
    /\ \E l \in Reorderings(sv_info_list) :
         /\ FirstSeen(l, TopGroups(l, min_observations))
              # FirstSeen(sv_info_list, TopGroups(sv_info_list, min_observations))
         /\ FindStrongFrequentNonGpsSource(l, min_observations) = found

====
